---------------------------- MODULE Spec2Model ----------------------------
(***************************************************************************)
(* Model of src/Controller.cpp (ProconXInput): the Procon::Controller      *)
(* session object, the process-wide registry `controllers` guarded by      *)
(* `controllerSetMut`, the constructors and the defaulted moves, the       *)
(* handshake in openDevice, pollInput, the destructor and the ViGEm        *)
(* feedback callback.                                                      *)
(*                                                                         *)
(* Every Controller object is one element of Sessions.  One caller thread  *)
(* works on an object at a time (pc[s] is that thread's position); the     *)
(* threads of different objects and the ViGEm callback thread interleave.  *)
(***************************************************************************)
EXTENDS Integers, Sequences, FiniteSets, TLC

\* ----------------------------------------------------------------- bounds
NumSessions == 2        \* Controller objects that may ever exist
\* moves (constructions and assignments), deliveries of the feedback callback
\* and answered polls that carry a report, together, in one run
MaxEvents == 2
\* the same in a run checked for progress
FairMaxEvents == 1

Sessions == 1..NumSessions
Serials == 1..NumSessions
\* (LargeMotor, SmallMotor, LEDNumber) values a callback may carry
FeedbackSamples == {<<1, 2, 3>>}

\* ------------------------------------------------------ protocol constants
getMAC == <<128, 1>>
handshake == <<128, 2>>
switchBaudrate == <<128, 3>>
HIDOnlyMode == <<128, 4>>
disconnect == <<128, 5>>
enable == <<1>>
rumbleCommand == 72
imuDataCommand == 64
ledCommand == 48
led == <<1>>
getInput == 31
empty == <<>>
FirstArgument == 1
NoUpdateMarker == 48

\* hid_device_info values handed to openDevice
DevInfos == {"nullptr", "wrongProduct", "unopenable", "procon"}

\* the answer to getInput: an empty optional, or a report with its first byte
FirstBytes == {NoUpdateMarker, 33, 0}
Answers == {[has |-> FALSE, first |-> 0]} \cup {[has |-> TRUE, first |-> b] : b \in FirstBytes}

OpenErrors == {"DeviceError", "HandshakeError", "PlugInError"}

VARIABLES
    life,        \* per object: "unborn", "constructing", "live", "destroying", "dead"
    pc,          \* per object: position of the call running on it, or "idle"
    device,      \* per object: the unique_ptr `device` is non-null
    vController, \* per object: the VIGEM_TARGET it owns
    feedback,    \* per object: largeMotor, smallMotor, currentLed
    trace,       \* per object: external calls made so far by the call running on it
    ignored,     \* per object: a call whose result the code drops has failed
                 \* during the call running on it
    last,        \* the member call that returned or threw in the latest step,
                 \* if one did: the object, how it ended, the calls it made,
                 \* whether it dropped a failure
    controllers, \* the registry: sequence of references (object ids)
    mutex,       \* controllerSetMut: 0 when free, else the holder
    plugged,     \* serial numbers in use on the virtual bus
    submitted,   \* number of vigem_xusb_submit_report calls so far
    fresh,       \* number of getInput answers so far that were given and not 0x30
    callbacks,   \* number of callback deliveries begun so far
    cbpc,        \* the callback thread: "idle" or "locked"
    calc,        \* the report mapping: the function applied last, its input
                 \* and its result
    moves,       \* number of move constructions and move assignments so far
    allowed,     \* how many moves, callbacks and reports the run may see
    writing      \* per object: the store into it that runs without the mutex:
                 \* the object a move reads from, the VIGEM_TARGET a
                 \* plug-in is writing, the feedback fields a move assignment
                 \* stored before it closed the old handle and what the
                 \* source held then

vars == <<life, pc, device, vController, feedback, trace, ignored, last, controllers,
          mutex, plugged, submitted, fresh, callbacks, cbpc, calc, writing, moves,
          allowed>>

CallbackThread == NumSessions + 1

\* ------------------------------------------------------------------ helpers
NewTarget == [ProductId |-> 0, SerialNo |-> 0, State |-> "NEW", VendorId |-> 0]

NoFeedback == [largeMotor |-> 0, smallMotor |-> 0, currentLed |-> 0]

Ev(op, bytes) == [op |-> op, bytes |-> bytes]

InRegistry(s) == \E i \in 1..Len(controllers) : controllers[i] = s

\* std::find_if: of the indices whose element satisfies the predicate, the
\* first one; 0 stands for end()
FindIf(hits) ==
    IF hits = {} THEN 0 ELSE CHOOSE i \in hits : \A j \in hits : i <= j

Erase(seq, i) == SubSeq(seq, 1, i-1) \o SubSeq(seq, i+1, Len(seq))

\* mutant: two sessions are equal when their virtual controllers are
ControllerEquals_ByValue(lhs, rhs) == vController[lhs] = vController[rhs]

\* operator==(const Controller&, const Controller&): address comparison
ControllerEquals(lhs, rhs) == lhs = rhs

\* the record of a call on s that ended with `how` after making `calls`
Ended(s, how, calls, dropped) ==
    [session |-> s, outcome |-> how, trace |-> calls, ignored |-> dropped]

\* no function of the report mapping has been applied
NoCalc ==
    [fn |-> "none", in |-> 0, out |-> 0,
     before |-> [wButtons |-> 0, bLeftTrigger |-> 0, bRightTrigger |-> 0,
                 sThumbLX |-> 0, sThumbLY |-> 0, sThumbRX |-> 0, sThumbRY |-> 0]]

\* no member call has ended in the latest step
NoCall == Ended(0, "none", <<>>, FALSE)

\* no unlocked store into the object is running
NoWrite == [from |-> 0, target |-> NewTarget, done |-> {}, early |-> NoFeedback]

\* no object exists yet; the run may see n moves, callbacks and reports
Start(n) ==
    /\ life = [s \in Sessions |-> "unborn"]
    /\ pc = [s \in Sessions |-> "idle"]
    /\ device = [s \in Sessions |-> FALSE]
    /\ vController = [s \in Sessions |-> NewTarget]
    /\ feedback = [s \in Sessions |-> NoFeedback]
    /\ trace = [s \in Sessions |-> <<>>]
    /\ ignored = [s \in Sessions |-> FALSE]
    /\ last = NoCall
    /\ controllers = <<>>
    /\ mutex = 0
    /\ plugged = {}
    /\ submitted = 0
    /\ fresh = 0
    /\ callbacks = 0
    /\ cbpc = "idle"
    /\ calc = NoCalc
    /\ writing = [s \in Sessions |-> NoWrite]
    /\ moves = 0
    /\ allowed = n

Init == Start(MaxEvents)

\* the moves, callbacks and reports the run has seen
Events == moves + callbacks + fresh

\* the log of the call running on s, extended by one external call
Called(s, op, bytes) == [trace EXCEPT ![s] = Append(@, Ev(op, bytes))]
\* a result the code does not look at
Dropped(s, ok) == [ignored EXCEPT ![s] = @ \/ ~ok]

\* ------------------------------------------------------------- construction
\* objects are numbered in the order in which they come to exist
NextObject(s) == life[s] = "unborn" /\ \A r \in 1..(s-1) : life[r] /= "unborn"

\* Controller::Controller(), up to the lock: VIGEM_TARGET_INIT
Construct_Init(s) ==
    /\ NextObject(s)
    /\ life' = [life EXCEPT ![s] = "constructing"]
    /\ pc' = [pc EXCEPT ![s] = "c_lock"]
    /\ vController' = [vController EXCEPT ![s] = [NewTarget EXCEPT !.State = "INITIALIZED"]]
    /\ device' = [device EXCEPT ![s] = FALSE]
    /\ last' = NoCall
    /\ UNCHANGED <<feedback, trace, ignored, controllers, mutex, plugged,
                   submitted, fresh, callbacks, cbpc>>
    /\ UNCHANGED <<calc, writing, moves, allowed>>

\* Controller::Controller(): lock_guard acquired
Construct_Lock(s) ==
    /\ pc[s] = "c_lock"
    /\ mutex = 0
    /\ mutex' = s
    /\ pc' = [pc EXCEPT ![s] = "c_emplace"]
    /\ last' = NoCall
    /\ UNCHANGED <<life, device, vController, feedback, trace, ignored, controllers, plugged, submitted, fresh, callbacks, cbpc>>
    /\ UNCHANGED <<calc, writing, moves, allowed>>

\* Controller::Controller(): emplace_back, lock released on return
Construct_Emplace(s) ==
    /\ pc[s] = "c_emplace"
    /\ controllers' = Append(controllers, s)
    /\ mutex' = 0
    /\ life' = [life EXCEPT ![s] = "live"]
    /\ pc' = [pc EXCEPT ![s] = "idle"]
    /\ last' = Ended(s, "constructed", <<>>, FALSE)
    /\ UNCHANGED <<device, vController, feedback, trace, ignored, plugged,
                   submitted, fresh, callbacks, cbpc>>
    /\ UNCHANGED <<calc, writing, moves, allowed>>

\* what a copy of the three feedback fields can hold when it runs, without
\* the mutex, next to the callback that writes them: each field as it was
\* early or late in the copy
FeedbackMixes(early, late) ==
    {[largeMotor |-> a, smallMotor |-> b, currentLed |-> c] :
        a \in {early.largeMotor, late.largeMotor},
        b \in {early.smallMotor, late.smallMotor},
        c \in {early.currentLed, late.currentLed}}

\* what a VIGEM_TARGET can hold while a store of `new` over `old` runs
\* without the mutex: each field written already or not yet
TargetMixes(old, new) ==
    {[ProductId |-> a, SerialNo |-> b, State |-> c, VendorId |-> d] :
        a \in {old.ProductId, new.ProductId},
        b \in {old.SerialNo, new.SerialNo},
        c \in {old.State, new.State},
        d \in {old.VendorId, new.VendorId}}

\* Controller::Controller(Controller &&) = default begins: memberwise move
\* into a new object; the unique_ptr leaves src, the VIGEM_TARGET is copied,
\* the feedback fields are read for the first time; the registry is not
\* touched and no lock is taken
MoveConstruct_Begin(src, dst) ==
    /\ src /= dst
    /\ Events < allowed
    /\ moves' = moves + 1
    /\ life[src] = "live" /\ pc[src] = "idle"
    /\ NextObject(dst)
    /\ life' = [life EXCEPT ![dst] = "constructing"]
    /\ pc' = [pc EXCEPT ![src] = "moved_from", ![dst] = "m_copy"]
    /\ writing' = [writing EXCEPT ![dst] = [NoWrite EXCEPT !.from = src]]
    /\ device' = [device EXCEPT ![dst] = device[src], ![src] = FALSE]
    /\ vController' = [vController EXCEPT ![dst] = vController[src]]
    /\ feedback' = [feedback EXCEPT ![dst] = feedback[src]]
    /\ last' = NoCall
    /\ UNCHANGED <<trace, ignored, controllers, mutex, plugged, submitted, fresh,
                   callbacks, cbpc>>
    /\ UNCHANGED <<calc, allowed>>

\* the move constructor returns: a callback that wrote into src meanwhile
\* raced with the copy, so each feedback field of dst holds what src held
\* before or after it
MoveConstruct_End(src, dst) ==
    /\ pc[dst] = "m_copy" /\ writing[dst].from = src
    /\ \E f \in FeedbackMixes(feedback[dst], feedback[src]) :
          feedback' = [feedback EXCEPT ![dst] = f]
    /\ life' = [life EXCEPT ![dst] = "live"]
    /\ pc' = [pc EXCEPT ![src] = "idle", ![dst] = "idle"]
    /\ writing' = [writing EXCEPT ![dst] = NoWrite]
    /\ last' = Ended(dst, "moved", <<>>, FALSE)
    /\ UNCHANGED <<device, vController, trace, ignored, controllers, mutex, plugged,
                   submitted, fresh, callbacks, cbpc>>
    /\ UNCHANGED <<calc, moves, allowed>>

\* the members a callback writes
FeedbackFields == {"largeMotor", "smallMotor", "currentLed"}

\* the feedback that holds the fields `fields` of a and the others of b
FieldsFrom(fields, a, b) ==
    [largeMotor |-> IF "largeMotor" \in fields THEN a.largeMotor ELSE b.largeMotor,
     smallMotor |-> IF "smallMotor" \in fields THEN a.smallMotor ELSE b.smallMotor,
     currentLed |-> IF "currentLed" \in fields THEN a.currentLed ELSE b.currentLed]

\* Controller::operator=(Controller &&) = default begins (dst = std::move(src)):
\* the members are assigned in the order of their declaration, which the
\* class definition fixes and src/ does not show; the unique_ptr of dst
\* takes the handle of src, src is left without one, and the call blocks in
\* hid_close of the handle dst held (no disconnect exchange), with no lock
\* held; `done` are the feedback fields declared before the handle, stored
\* already, the others still hold what dst held; the VIGEM_TARGET of dst,
\* stored without the mutex before or after the handle, holds each field
\* as dst or as src had it; neither the registry nor the virtual bus is
\* touched
MoveAssign_Begin(src, dst) ==
    /\ src /= dst
    /\ Events < allowed
    /\ moves' = moves + 1
    /\ life[src] = "live" /\ pc[src] = "idle"
    /\ life[dst] = "live" /\ pc[dst] = "idle"
    /\ pc' = [pc EXCEPT ![src] = "moved_from", ![dst] = "a_copy"]
    /\ device' = [device EXCEPT ![dst] = device[src], ![src] = FALSE]
    /\ \E t \in TargetMixes(vController[dst], vController[src]) :
          vController' = [vController EXCEPT ![dst] = t]
    /\ \E done \in SUBSET FeedbackFields :
          /\ writing' = [writing EXCEPT ![dst] =
                             [NoWrite EXCEPT !.from = src, !.done = done,
                                             !.early = feedback[src]]]
          /\ feedback' = [feedback EXCEPT ![dst] =
                              FieldsFrom(done, feedback[src], feedback[dst])]
    /\ last' = NoCall
    /\ UNCHANGED <<life, trace, ignored, controllers, mutex, plugged, submitted, fresh,
                   callbacks, cbpc>>
    /\ UNCHANGED <<calc, allowed>>

\* the move assignment returns: hid_close has returned, dst holds the
\* VIGEM_TARGET of src; the feedback fields stored before the close hold
\* what the assignment or a callback since stored there, the others are
\* stored now, each with what src held before or after a callback that
\* raced with the assignment
MoveAssign_End(src, dst) ==
    /\ pc[dst] = "a_copy" /\ writing[dst].from = src
    /\ vController' = [vController EXCEPT ![dst] = vController[src]]
    /\ \E f \in FeedbackMixes(writing[dst].early, feedback[src]) :
          feedback' = [feedback EXCEPT ![dst] =
                          FieldsFrom(writing[dst].done, feedback[dst], f)]
    /\ pc' = [pc EXCEPT ![src] = "idle", ![dst] = "idle"]
    /\ writing' = [writing EXCEPT ![dst] = NoWrite]
    /\ last' = Ended(dst, "assigned", <<>>, FALSE)
    /\ UNCHANGED <<life, device, trace, ignored, controllers, mutex, plugged,
                   submitted, fresh, callbacks, cbpc>>
    /\ UNCHANGED <<calc, moves, allowed>>

\* -------------------------------------------------------------- destruction
\* the caller starts ~Controller() and waits for the lock_guard
Destroy_Begin(s) ==
    /\ life[s] = "live" /\ pc[s] = "idle"
    /\ life' = [life EXCEPT ![s] = "destroying"]
    /\ pc' = [pc EXCEPT ![s] = "d_lock"]
    /\ last' = NoCall
    /\ UNCHANGED <<device, vController, feedback, trace, ignored, controllers,
                   mutex, plugged, submitted, fresh, callbacks, cbpc>>
    /\ UNCHANGED <<calc, writing, moves, allowed>>

\* ~Controller(): lock_guard acquired
Destroy_Lock(s) ==
    /\ pc[s] = "d_lock"
    /\ mutex = 0
    /\ mutex' = s
    /\ pc' = [pc EXCEPT ![s] = "d_unplug"]
    /\ last' = NoCall
    /\ UNCHANGED <<life, device, vController, feedback, trace, ignored, controllers, plugged, submitted, fresh, callbacks, cbpc>>
    /\ UNCHANGED <<calc, writing, moves, allowed>>

\* vigem_target_unplug: the bus removes the target when its serial is plugged
\* in and marks it DISCONNECTED; otherwise the call fails and changes nothing
UnplugOk(s) == vController[s].SerialNo \in plugged

\* mutant: the destructor does not unplug
Destroy_Unplug_Skipped(s) ==
    /\ pc[s] = "d_unplug"
    /\ pc' = [pc EXCEPT ![s] = "d_disconnect"]
    /\ last' = NoCall
    /\ UNCHANGED <<life, device, vController, feedback, trace, ignored, controllers, mutex, plugged, submitted, fresh, callbacks, cbpc>>
    /\ UNCHANGED <<calc, writing, moves, allowed>>

\* ~Controller(): if (vController.State == VIGEM_TARGET_CONNECTED) unplug
Destroy_Unplug(s) ==
    /\ pc[s] = "d_unplug"
    /\ IF vController[s].State = "CONNECTED"
       THEN /\ trace' = Called(s, "vigem_target_unplug", <<>>)
            /\ ignored' = Dropped(s, UnplugOk(s))
            /\ IF UnplugOk(s)
               THEN /\ vController' = [vController EXCEPT ![s].State = "DISCONNECTED"]
                    /\ plugged' = plugged \ {vController[s].SerialNo}
               ELSE UNCHANGED <<vController, plugged>>
       ELSE UNCHANGED <<trace, ignored, vController, plugged>>
    /\ pc' = [pc EXCEPT ![s] = "d_disconnect"]
    /\ last' = NoCall
    /\ UNCHANGED <<life, device, feedback, controllers, mutex,
                   submitted, fresh, callbacks, cbpc>>
    /\ UNCHANGED <<calc, writing, moves, allowed>>

\* mutant: a failed disconnect exchange is raised out of the destructor, which
\* ends without the erase
Destroy_Disconnect_Raises(s) ==
    /\ pc[s] = "d_disconnect"
    /\ \E ok \in BOOLEAN :
          IF device[s] /\ ~ok
          THEN /\ pc' = [pc EXCEPT ![s] = "idle"]
               /\ life' = [life EXCEPT ![s] = "dead"]
               /\ mutex' = 0
               /\ last' = Ended(s, "DisconnectError",
                                Append(trace[s], Ev("exchange", disconnect)), FALSE)
               /\ trace' = [trace EXCEPT ![s] = <<>>]
               /\ ignored' = [ignored EXCEPT ![s] = FALSE]
               /\ device' = [device EXCEPT ![s] = FALSE]
               /\ vController' = [vController EXCEPT ![s] = NewTarget]
               /\ feedback' = [feedback EXCEPT ![s] = NoFeedback]
          ELSE /\ pc' = [pc EXCEPT ![s] = "d_erase"]
               /\ trace' = IF device[s] THEN Called(s, "exchange", disconnect) ELSE trace
               /\ last' = NoCall
               /\ UNCHANGED <<life, device, vController, feedback, ignored, mutex>>
    /\ UNCHANGED <<controllers, plugged, submitted, fresh, callbacks, cbpc>>
    /\ UNCHANGED <<calc, writing, moves, allowed>>

\* ~Controller(): if (device) exchange(disconnect), result ignored
Destroy_Disconnect(s) ==
    /\ pc[s] = "d_disconnect"
    /\ IF device[s]
       THEN /\ trace' = Called(s, "exchange", disconnect)
            /\ \E ok \in BOOLEAN : ignored' = Dropped(s, ok)
       ELSE UNCHANGED <<trace, ignored>>
    /\ pc' = [pc EXCEPT ![s] = "d_erase"]
    /\ last' = NoCall
    /\ UNCHANGED <<life, device, vController, feedback, controllers, mutex,
                   plugged, submitted, fresh, callbacks, cbpc>>
    /\ UNCHANGED <<calc, writing, moves, allowed>>

\* mutant: the destructor leaves its registry entry behind
Destroy_Erase_KeepsEntry(s) ==
    /\ pc[s] = "d_erase"
    /\ mutex' = 0
    /\ pc' = [pc EXCEPT ![s] = "d_close"]
    /\ last' = NoCall
    /\ UNCHANGED <<life, device, vController, feedback, trace, ignored, controllers,
                   plugged, submitted, fresh, callbacks, cbpc>>
    /\ UNCHANGED <<calc, writing, moves, allowed>>

\* ~Controller(): find_if by reference identity, erase when found; the body
\* ends and the lock_guard is released
Destroy_Erase(s) ==
    /\ pc[s] = "d_erase"
    /\ LET i == FindIf({k \in 1..Len(controllers) : ControllerEquals(s, controllers[k])})
       IN  IF i /= 0
           THEN /\ controllers' = Erase(controllers, i)
                /\ trace' = Called(s, "erase", <<>>)
           ELSE UNCHANGED <<controllers, trace>>
    /\ mutex' = 0
    /\ pc' = [pc EXCEPT ![s] = "d_close"]
    /\ last' = NoCall
    /\ UNCHANGED <<life, device, vController, feedback, ignored, plugged, submitted,
                   fresh, callbacks, cbpc>>
    /\ UNCHANGED <<calc, writing, moves, allowed>>

\* ~Controller(), after the body: the members are destroyed without the
\* mutex (hid_close of an open handle); the storage of a dead object holds
\* nothing
Destroy_Close(s) ==
    /\ pc[s] = "d_close"
    /\ last' = Ended(s, "destroyed", trace[s], ignored[s])
    /\ trace' = [trace EXCEPT ![s] = <<>>]
    /\ ignored' = [ignored EXCEPT ![s] = FALSE]
    /\ device' = [device EXCEPT ![s] = FALSE]
    /\ vController' = [vController EXCEPT ![s] = NewTarget]
    /\ feedback' = [feedback EXCEPT ![s] = NoFeedback]
    /\ life' = [life EXCEPT ![s] = "dead"]
    /\ pc' = [pc EXCEPT ![s] = "idle"]
    /\ UNCHANGED <<controllers, mutex, plugged, submitted, fresh, callbacks, cbpc>>
    /\ UNCHANGED <<calc, writing, moves, allowed>>

\* --------------------------------------------------------------- openDevice
\* a call of sendSubcommand as the call site writes it, with its three
\* arguments in order; what the body (Controller.hpp) makes of them is not
\* part of the call
SubcommandCall(first, subcommand, data) ==
    Ev("sendSubcommand", <<first, subcommand>> \o data)

\* mutant: every subcommand is tagged with the first argument of its call
SubcommandTag_FirstArgument(n, first) == first

\* the body of sendSubcommand: the id that tags the n-th subcommand a call
\* of openDevice sends, an incrementing id
SubcommandTag(n, first) == n

\* encodeSubcommand(id, command, payload): the subcommand envelope, the id
\* byte, then the subcommand code, then the payload
encodeSubcommand(id, command, payload) == <<id, command>> \o payload

\* the subcommand envelopes that the calls of a log put on the wire, in order
SubcommandsOnWire(calls) ==
    LET subs == SelectSeq(calls, LAMBDA e : e.op = "sendSubcommand")
    IN  [n \in 1..Len(subs) |->
            encodeSubcommand(SubcommandTag(n, subs[n].bytes[1]), subs[n].bytes[2],
                             SubSeq(subs[n].bytes, 3, Len(subs[n].bytes)))]

\* openDevice, line 137: the exchange whose result is checked
FirstExchange == Ev("exchange", handshake)

\* mutant: HID-only-mode requested before the second handshake
LaterExchanges_Reordered ==
    << Ev("exchange", switchBaudrate),
       Ev("exchange", HIDOnlyMode),
       Ev("exchange", handshake),
       SubcommandCall(FirstArgument, rumbleCommand, enable),
       SubcommandCall(FirstArgument, imuDataCommand, enable),
       SubcommandCall(FirstArgument, ledCommand, led) >>

\* openDevice, lines 140-146: the calls whose results are dropped, in order
LaterExchanges ==
    << Ev("exchange", switchBaudrate),
       Ev("exchange", handshake),
       Ev("exchange", HIDOnlyMode),
       SubcommandCall(FirstArgument, rumbleCommand, enable),
       SubcommandCall(FirstArgument, imuDataCommand, enable),
       SubcommandCall(FirstArgument, ledCommand, led) >>

\* vigem_target_plugin can succeed for an initialised target that is not
\* connected when the bus has a free serial; it may fail in any state
FreeSerials == Serials \ plugged
PluginMaySucceed(s) ==
    /\ vController[s].State \in {"INITIALIZED", "DISCONNECTED"}
    /\ FreeSerials /= {}
LowestFree == CHOOSE n \in FreeSerials : \A m \in FreeSerials : n <= m

\* openDevice, line 137: the first handshake decides between going on and throwing
HandshakeAccepted(first) == first

\* the call running on s ends as `how`, having made `calls`
Returns(s, how, calls, dropped) ==
    /\ last' = Ended(s, how, calls, dropped)
    /\ pc' = [pc EXCEPT ![s] = "idle"]
    /\ trace' = [trace EXCEPT ![s] = <<>>]
    /\ ignored' = [ignored EXCEPT ![s] = FALSE]

\* Controller::openDevice(dev), lines 128-132: the checks of dev and
\* hid_open_path; device.reset stores the new handle (none for a device that
\* cannot be opened) and then blocks in hid_close of the handle held before,
\* with no lock held; without a handle held before, line 133 follows at once
OpenDevice_Open(s, dev) ==
    /\ life[s] = "live" /\ pc[s] = "idle"
    /\ \/ /\ dev \in {"nullptr", "wrongProduct"}
          /\ last' = Ended(s, "DeviceError", <<>>, FALSE)
          /\ UNCHANGED <<device, pc>>
       \/ /\ dev = "unopenable"
          /\ device' = [device EXCEPT ![s] = FALSE]
          /\ IF device[s]
             THEN /\ pc' = [pc EXCEPT ![s] = "o_reopen"]
                  /\ last' = NoCall
             ELSE /\ last' = Ended(s, "DeviceError", <<>>, FALSE)
                  /\ UNCHANGED pc
       \/ /\ dev = "procon"
          /\ device' = [device EXCEPT ![s] = TRUE]
          /\ pc' = [pc EXCEPT ![s] = IF device[s] THEN "o_reopen" ELSE "o_handshake"]
          /\ last' = NoCall
    /\ UNCHANGED <<life, vController, feedback, trace, ignored, controllers, mutex,
                   plugged, submitted, fresh, callbacks, cbpc>>
    /\ UNCHANGED <<calc, writing, moves, allowed>>

\* openDevice, lines 132-134: hid_close of the handle held before has
\* returned; line 133 throws when hid_open_path gave no handle
OpenDevice_Reopened(s) ==
    /\ pc[s] = "o_reopen"
    /\ IF device[s]
       THEN /\ pc' = [pc EXCEPT ![s] = "o_handshake"]
            /\ last' = NoCall
            /\ UNCHANGED <<trace, ignored>>
       ELSE Returns(s, "DeviceError", <<>>, FALSE)
    /\ UNCHANGED <<life, device, vController, feedback, controllers, mutex, plugged,
                   submitted, fresh, callbacks, cbpc>>
    /\ UNCHANGED <<calc, writing, moves, allowed>>

\* openDevice, line 138: throw; the device stays open
HandshakeFailed(s) ==
    /\ Returns(s, "HandshakeError", Append(trace[s], FirstExchange), FALSE)
    /\ UNCHANGED device

\* openDevice, lines 137-139: `first` is the result of the first handshake;
\* nothing more is sent when it fails
OpenDevice_Handshake(s, first) ==
    /\ pc[s] = "o_handshake"
    /\ IF ~HandshakeAccepted(first)
       THEN HandshakeFailed(s)
       ELSE /\ trace' = [trace EXCEPT ![s] = Append(@, FirstExchange)]
            /\ pc' = [pc EXCEPT ![s] = "o_configure"]
            /\ last' = NoCall
            /\ UNCHANGED <<device, ignored>>
    /\ UNCHANGED <<life, vController, feedback, controllers, mutex, plugged, submitted,
                   fresh, callbacks, cbpc>>
    /\ UNCHANGED <<calc, writing, moves, allowed>>

\* the calls of lines 140-146 made so far by the call running on s
LaterMade(s) == Len(trace[s]) - 1

\* mutant: a best-effort exchange that fails throws like the first handshake
OpenDevice_Configure_Checked(s, ok) ==
    /\ pc[s] = "o_configure"
    /\ IF ~ok
       THEN Returns(s, "HandshakeError",
                    Append(trace[s], LaterExchanges[LaterMade(s) + 1]), FALSE)
       ELSE /\ trace' = [trace EXCEPT ![s] = Append(@, LaterExchanges[LaterMade(s) + 1])]
            /\ pc' = [pc EXCEPT ![s] = IF LaterMade(s) + 1 = Len(LaterExchanges)
                                       THEN "o_plugin" ELSE "o_configure"]
            /\ last' = NoCall
            /\ UNCHANGED ignored
    /\ UNCHANGED <<life, device, vController, feedback, controllers, mutex, plugged,
                   submitted, fresh, callbacks, cbpc>>
    /\ UNCHANGED <<calc, writing, moves, allowed>>

\* openDevice, lines 140-146: the next of the three exchanges and three
\* subcommands whose results are dropped; `ok` is its result; the call
\* blocks in each of them, one after the other (line 143 sets lastCommand,
\* a timestamp, which is not modelled)
OpenDevice_Configure(s, ok) ==
    /\ pc[s] = "o_configure"
    /\ trace' = [trace EXCEPT ![s] = Append(@, LaterExchanges[LaterMade(s) + 1])]
    /\ ignored' = [ignored EXCEPT ![s] = @ \/ ~ok]
    /\ pc' = [pc EXCEPT ![s] = IF LaterMade(s) + 1 = Len(LaterExchanges)
                               THEN "o_plugin" ELSE "o_configure"]
    /\ last' = NoCall
    /\ UNCHANGED <<life, device, vController, feedback, controllers, mutex, plugged,
                   submitted, fresh, callbacks, cbpc>>
    /\ UNCHANGED <<calc, writing, moves, allowed>>

\* mutant: the target is left marked connected when the plug-in fails
PlugInFailed_TargetConnected(s) ==
    /\ device' = [device EXCEPT ![s] = FALSE]
    /\ trace' = Called(s, "vigem_target_plugin", <<>>)
    /\ pc' = [pc EXCEPT ![s] = "o_release"]
    /\ last' = NoCall
    /\ vController' = [vController EXCEPT ![s].State = "CONNECTED"]
    /\ UNCHANGED <<plugged, writing, ignored>>

\* mutant: the device is kept when the plug-in fails
PlugInFailed_DeviceKept(s) ==
    /\ device' = [device EXCEPT ![s] = TRUE]
    /\ trace' = Called(s, "vigem_target_plugin", <<>>)
    /\ pc' = [pc EXCEPT ![s] = "o_release"]
    /\ last' = NoCall
    /\ UNCHANGED <<vController, plugged, writing, ignored>>

\* openDevice, lines 148-149: vigem_target_plugin has returned an error;
\* device.reset(nullptr) stores null and then blocks in hid_close of the
\* handle, with no lock held
PlugInFailed(s) ==
    /\ device' = [device EXCEPT ![s] = FALSE]
    /\ trace' = Called(s, "vigem_target_plugin", <<>>)
    /\ pc' = [pc EXCEPT ![s] = "o_release"]
    /\ last' = NoCall
    /\ UNCHANGED <<vController, plugged, writing, ignored>>

\* openDevice, lines 149-150: hid_close has returned, throw
OpenDevice_Released(s) ==
    /\ pc[s] = "o_release"
    /\ Returns(s, "PlugInError", trace[s], ignored[s])
    /\ UNCHANGED <<life, device, vController, feedback, controllers, mutex, plugged,
                   submitted, fresh, callbacks, cbpc>>
    /\ UNCHANGED <<calc, writing, moves, allowed>>

\* openDevice, line 148: the bus takes the target with the lowest free
\* serial; vigem_target_plugin stores State and SerialNo into vController
\* without the mutex, so the target may hold either, both or neither of the
\* two new fields before the call returns
PluggingIn(s) ==
    LET new == [vController[s] EXCEPT !.State = "CONNECTED", !.SerialNo = LowestFree]
    IN  /\ plugged' = plugged \cup {LowestFree}
        /\ writing' = [writing EXCEPT ![s] = [NoWrite EXCEPT !.target = new]]
        /\ \E t \in TargetMixes(vController[s], new) :
              vController' = [vController EXCEPT ![s] = t]
        /\ trace' = Called(s, "vigem_target_plugin", <<>>)
        /\ pc' = [pc EXCEPT ![s] = "o_plugged"]
        /\ last' = NoCall
        /\ UNCHANGED <<device, ignored>>

\* openDevice, line 148: vigem_target_plugin; `bus` is whether the virtual
\* bus accepts the plug-in
OpenDevice_Plugin(s, bus) ==
    /\ pc[s] = "o_plugin"
    /\ IF bus /\ PluginMaySucceed(s)
       THEN PluggingIn(s)
       ELSE PlugInFailed(s)
    /\ UNCHANGED <<life, feedback, controllers, mutex, submitted, fresh, callbacks,
                   cbpc>>
    /\ UNCHANGED <<calc, moves, allowed>>

\* openDevice, lines 148-152: vigem_target_plugin has returned
\* VIGEM_ERROR_NONE, the target is written in full; the first sleep_for
OpenDevice_Plugged(s) ==
    /\ pc[s] = "o_plugged"
    /\ vController' = [vController EXCEPT ![s] = writing[s].target]
    /\ writing' = [writing EXCEPT ![s] = NoWrite]
    /\ pc' = [pc EXCEPT ![s] = "o_register"]
    /\ last' = NoCall
    /\ UNCHANGED <<life, device, feedback, trace, ignored, controllers, mutex, plugged,
                   submitted, fresh, callbacks, cbpc>>
    /\ UNCHANGED <<calc, moves, allowed>>

\* openDevice, line 153: the notification is registered; the call then
\* sleeps (line 154), still inside openDevice
OpenDevice_Register(s) ==
    /\ pc[s] = "o_register"
    /\ trace' = [trace EXCEPT ![s] = Append(@, Ev("vigem_register_xusb_notification", <<>>))]
    /\ pc' = [pc EXCEPT ![s] = "o_return"]
    /\ last' = NoCall
    /\ UNCHANGED <<life, device, vController, feedback, ignored, controllers, mutex,
                   plugged, submitted, fresh, callbacks, cbpc>>
    /\ UNCHANGED <<calc, writing, moves, allowed>>

\* openDevice, lines 154-156: the second sleep_for ends and the call returns
OpenDevice_Return(s) ==
    /\ pc[s] = "o_return"
    /\ Returns(s, "opened", trace[s], ignored[s])
    /\ UNCHANGED <<life, device, vController, feedback, controllers, mutex, plugged,
                   submitted, fresh, callbacks, cbpc>>
    /\ UNCHANGED <<calc, writing, moves, allowed>>

\* ---------------------------------------------------------------- pollInput
\* mutant: the check of the device is missing
DeviceAbsent_Unchecked(s) == FALSE

\* pollInput, line 275: if (!device) return
DeviceAbsent(s) == ~device[s]

\* mutant: every answered report is submitted
ShouldSubmit_Always(first) == TRUE

\* pollInput, line 282: a report is mapped and submitted unless its first byte
\* is the marker
ShouldSubmit(first) == first /= NoUpdateMarker

\* pollInput, line 278
GetInputCommand == Ev("sendCommand", <<getInput>> \o empty)

\* mutant: a failed exchange closes the device
PollFailed_ClosesDevice(s) ==
    /\ Returns(s, "PollError", trace[s], FALSE)
    /\ device' = [device EXCEPT ![s] = FALSE]
    /\ UNCHANGED <<vController, submitted, fresh>>

\* pollInput, lines 279-281: the exchange gave nothing, throw
PollFailed(s) ==
    /\ Returns(s, "PollError", trace[s], FALSE)
    /\ UNCHANGED <<device, vController, submitted, fresh>>

\* pollInput, lines 275-278: without a device the call returns at once; with
\* one, getInput is sent and the call waits for the answer
PollInput_Begin(s) ==
    /\ life[s] = "live" /\ pc[s] = "idle"
    /\ IF DeviceAbsent(s)
       THEN /\ last' = Ended(s, "polled", <<>>, FALSE)
            /\ UNCHANGED <<pc, trace>>
       ELSE /\ pc' = [pc EXCEPT ![s] = "p_send"]
            /\ trace' = [trace EXCEPT ![s] = <<GetInputCommand>>]
            /\ last' = NoCall
    /\ UNCHANGED <<life, device, vController, feedback, ignored, controllers, mutex,
                   plugged, submitted, fresh, callbacks, cbpc>>
    /\ UNCHANGED <<calc, writing, moves, allowed>>

\* pollInput, lines 278-282: the answer of the getInput exchange: none
\* (throw), the marker (return), or a report, which goes on to be mapped and
\* submitted; `fresh` counts the answers that carried a report other than
\* the marker
PollInput_Answer(s, answer) ==
    /\ pc[s] = "p_send"
    /\ IF ~answer.has
       THEN PollFailed(s)
       ELSE /\ fresh' = IF answer.first = NoUpdateMarker THEN fresh ELSE fresh + 1
            /\ fresh' /= fresh => Events < allowed
            /\ IF ShouldSubmit(answer.first)
               THEN /\ pc' = [pc EXCEPT ![s] = "p_submit"]
                    /\ last' = NoCall
                    /\ UNCHANGED <<trace, ignored>>
               ELSE Returns(s, "polled", trace[s], FALSE)
            /\ UNCHANGED <<device, vController, submitted>>
    /\ UNCHANGED <<life, feedback, controllers, mutex, plugged, callbacks, cbpc>>
    /\ UNCHANGED <<calc, writing, moves, allowed>>

\* pollInput, lines 283-291: the report is mapped (mapInputToReport) and
\* submitted, and the call returns; the status of vigem_xusb_submit_report is
\* only printed and is not modelled
PollInput_Submit(s) ==
    /\ pc[s] = "p_submit"
    /\ submitted' = submitted + 1
    /\ Returns(s, "polled", Append(trace[s], Ev("vigem_xusb_submit_report", <<>>)), FALSE)
    /\ UNCHANGED <<life, device, vController, feedback, controllers, mutex, plugged,
                   fresh, callbacks, cbpc>>
    /\ UNCHANGED <<calc, writing, moves, allowed>>

\* ------------------------------------------------------------ vigemCallback
VigemStates == {"INITIALIZED", "CONNECTED", "DISCONNECTED"}
\* identities a callback may carry: every serial in every state with the ids
\* every target of this program has, and the first plugged-in target with
\* another product id or another vendor id
Targets ==
    [ProductId : {0}, SerialNo : {0} \cup Serials, State : VigemStates, VendorId : {0}]
    \cup {[ProductId |-> 1, SerialNo |-> 1, State |-> "CONNECTED", VendorId |-> 0],
          [ProductId |-> 0, SerialNo |-> 1, State |-> "CONNECTED", VendorId |-> 1]}

\* mutant: the serial number is left out of the comparison
targetEquals_SerialIgnored(lhs, rhs) ==
    /\ lhs.ProductId = rhs.ProductId
    /\ lhs.State = rhs.State
    /\ lhs.VendorId = rhs.VendorId

\* targetEquals, lines 99-105
targetEquals(lhs, rhs) ==
    /\ lhs.ProductId = rhs.ProductId
    /\ lhs.SerialNo = rhs.SerialNo
    /\ lhs.State = rhs.State
    /\ lhs.VendorId = rhs.VendorId

\* vigemCallback: lock_guard acquired
Callback_Lock ==
    /\ cbpc = "idle"
    /\ Events < allowed
    /\ mutex = 0
    /\ mutex' = CallbackThread
    /\ cbpc' = "locked"
    /\ last' = NoCall
    /\ callbacks' = callbacks + 1
    /\ UNCHANGED <<life, pc, device, vController, feedback, trace, ignored, controllers, plugged, submitted, fresh>>
    /\ UNCHANGED <<calc, writing, moves, allowed>>

\* mutant: the motor values stored the wrong way round
vigemCallback_Swapped(t, LargeMotor, SmallMotor, LEDNumber) ==
    LET it == FindIf({k \in 1..Len(controllers) :
                         targetEquals(vController[controllers[k]], t)})
    IN  IF it /= 0
        THEN [feedback EXCEPT ![controllers[it]] =
                 [largeMotor |-> SmallMotor, smallMotor |-> LargeMotor,
                  currentLed |-> LEDNumber]]
        ELSE feedback

\* vigemCallback, lines 111-122: the feedback fields of all objects after
\* the body: find_if by targetEquals over the registry, the first match
\* updated
vigemCallback(t, LargeMotor, SmallMotor, LEDNumber) ==
    LET it == FindIf({k \in 1..Len(controllers) :
                         targetEquals(vController[controllers[k]], t)})
    IN  IF it /= 0
        THEN [feedback EXCEPT ![controllers[it]] =
                 [largeMotor |-> LargeMotor, smallMotor |-> SmallMotor,
                  currentLed |-> LEDNumber]]
        ELSE feedback

\* vigemCallback: the body runs under the lock_guard, which is released on
\* return
Callback_Apply(t, LargeMotor, SmallMotor, LEDNumber) ==
    /\ cbpc = "locked"
    /\ feedback' = vigemCallback(t, LargeMotor, SmallMotor, LEDNumber)
    /\ mutex' = 0
    /\ cbpc' = "idle"
    /\ last' = NoCall
    /\ UNCHANGED <<life, pc, device, vController, trace, ignored, controllers,
                   plugged, submitted, fresh, callbacks>>
    /\ UNCHANGED <<calc, writing, moves, allowed>>

\* ------------------------------------------------------------- expandUChar
\* The doubles that expandUChar meets are modelled exactly: a magnitude is a
\* binary fixed-point number, a sequence of Limbs digits of LimbBits bits
\* each, least significant first, FracLimbs of them after the point; every
\* operation is followed by the rounding of IEEE-754 binary64 (round to
\* nearest, ties to even).
ucmax == 255            \* std::numeric_limits<uchar>::max()
smax == 32767           \* std::numeric_limits<short>::max()
smin == -32768          \* std::numeric_limits<short>::min()
Significand == 53       \* significant bits of a double
LimbBits == 14
Radix == 2^LimbBits
FracLimbs == 5
IntLimbs == 2
Limbs == FracLimbs + IntLimbs
Width == Limbs * LimbBits

Bit(n, k) == (n \div 2^k) % 2

\* the i-th bit of a magnitude, counted from the least significant, from 1
BitAt(a, i) == Bit(a[((i - 1) \div LimbBits) + 1], (i - 1) % LimbBits)

\* the double of the integer n, 0 <= n < Radix^IntLimbs
FromNat(n) == <<0, 0, 0, 0, 0, n % Radix, n \div Radix>>

\* the integer part of a magnitude
IntPart(a) == a[FracLimbs + 1] + Radix * a[FracLimbs + 2]

RECURSIVE AddFrom(_, _, _, _)
AddFrom(a, b, i, carry) ==
    IF i > Limbs THEN <<>>
    ELSE <<(a[i] + b[i] + carry) % Radix>>
         \o AddFrom(a, b, i + 1, (a[i] + b[i] + carry) \div Radix)

Add(a, b) == AddFrom(a, b, 1, 0)

RECURSIVE SubFrom(_, _, _, _)
SubFrom(a, b, i, borrow) ==
    IF i > Limbs THEN <<>>
    ELSE <<(a[i] - b[i] - borrow + Radix) % Radix>>
         \o SubFrom(a, b, i + 1, IF a[i] - b[i] - borrow < 0 THEN 1 ELSE 0)

\* a - b for a >= b
Sub(a, b) == SubFrom(a, b, 1, 0)

Geq(a, b) ==
    LET diff == {i \in 1..Limbs : a[i] /= b[i]}
    IN  \/ diff = {}
        \/ LET top == CHOOSE i \in diff : \A j \in diff : j <= i
           IN  a[top] > b[top]

RECURSIVE MulFrom(_, _, _, _)
MulFrom(a, n, i, carry) ==
    IF i > Limbs THEN <<>>
    ELSE <<(a[i] * n + carry) % Radix>>
         \o MulFrom(a, n, i + 1, (a[i] * n + carry) \div Radix)

\* the exact product of a magnitude and an integer, 0 <= n <= 2^15
MulNat(a, n) == MulFrom(a, n, 1, 0)

\* position of the leading one, 0 for zero
Top(a) ==
    LET ones == {i \in 1..Width : BitAt(a, i) = 1}
    IN  IF ones = {} THEN 0 ELSE CHOOSE i \in ones : \A j \in ones : j <= i

\* a with its k lowest bits cleared, from the i-th limb on
RECURSIVE ClearFrom(_, _, _)
ClearFrom(a, k, i) ==
    IF i > Limbs THEN <<>>
    ELSE LET low == k - (i - 1) * LimbBits    \* bits of this limb to clear
         IN  << IF low >= LimbBits THEN 0
                ELSE IF low <= 0 THEN a[i]
                ELSE (a[i] \div 2^low) * 2^low >> \o ClearFrom(a, k, i + 1)

\* 2^k as a magnitude
RECURSIVE UnitFrom(_, _)
UnitFrom(k, i) ==
    IF i > Limbs THEN <<>>
    ELSE << IF k \div LimbBits = i - 1 THEN 2^(k % LimbBits) ELSE 0 >> \o UnitFrom(k, i + 1)

\* rounding of an exact result to a double: nearest, ties to even
RoundToDouble(a) ==
    LET k == Top(a) - Significand
    IN  IF k <= 0 THEN a
        ELSE LET kept == ClearFrom(a, k, 1)
                 sticky == \E i \in 1..(k - 1) : BitAt(a, i) = 1
                 up == BitAt(a, k) = 1 /\ (sticky \/ BitAt(a, k + 1) = 1)
             IN  IF up THEN Add(kept, UnitFrom(k, 1)) ELSE kept

\* long division: the digits after the point of rem / m from the j-th on,
\* least significant first; what is left of the division is kept in the last
\* bit, from where it takes part in the rounding
RECURSIVE QuotientFrom(_, _, _)
QuotientFrom(rem, m, j) ==
    IF j = FracLimbs
    THEN << IF (rem * Radix) % m /= 0
            THEN (((rem * Radix) \div m) \div 2) * 2 + 1
            ELSE (rem * Radix) \div m >>
    ELSE Append(QuotientFrom((rem * Radix) % m, m, j + 1), (rem * Radix) \div m)

\* the exact quotient n / m of two integers, 0 <= n, 0 < m <= ucmax
Quotient(n, m) == QuotientFrom(n % m, m, 1) \o <<(n \div m) % Radix, (n \div m) \div Radix>>

\* std::clamp(v, 0.0, 1.0) of a value that is not negative
Clamp01(v) == IF Geq(v, FromNat(1)) THEN FromNat(1) ELSE v

\* mutant: the sample is spread over [0, smax] only
expandUChar_Unsigned(c) ==
    LET d == Clamp01(RoundToDouble(Quotient(c, ucmax)))
    IN  IntPart(RoundToDouble(MulNat(d, smax)))

\* expandUChar, lines 91-98: d = clamp(c / ucmax, 0, 1), then
\* lerp(smin, smax, d) = (1.0 - d) * smin + d * smax (lines 88-90), then the
\* conversion to short, which drops the fraction
expandUChar(c) ==
    LET d == Clamp01(RoundToDouble(Quotient(c, ucmax)))
        low == RoundToDouble(MulNat(RoundToDouble(Sub(FromNat(1), d)), -smin))
        high == RoundToDouble(MulNat(d, smax))
        negative == ~Geq(high, low)
        sum == RoundToDouble(IF negative THEN Sub(low, high) ELSE Sub(high, low))
    IN  IF negative THEN -IntPart(sum) ELSE IntPart(sum)

\* ---------------------------------------------------------- report mapping
\* the program's variables other than calc
program == <<life, pc, device, vController, feedback, trace, ignored, last,
             controllers, mutex, plugged, submitted, fresh, callbacks, cbpc, writing, moves,
             allowed>>

ButtonSources == {"Left", "Middle", "Right"}

\* the three 8-entry tables, bit position (from 0) to Button: the layout of the
\* Pro Controller's button bytes
JoyconLBitmap == <<"DPadDown", "DPadUp", "DPadRight", "DPadLeft", "None", "None", "L", "LZ">>
JoyconMidBitmap == <<"Minus", "Plus", "RStick", "LStick", "Home", "Share", "None", "None">>
JoyconRBitmap == <<"Y", "X", "B", "A", "None", "None", "R", "RZ">>

\* getButtonMap, lines 166-177
getButtonMap(s) ==
    CASE s = "Left" -> JoyconLBitmap
      [] s = "Middle" -> JoyconMidBitmap
      [] s = "Right" -> JoyconRBitmap

\* mutant: the slots without a button are decoded as well
RECURSIVE pullButtonsFromByte_KeepsNone(_, _, _, _)
pullButtonsFromByte_KeepsNone(c, src, out, i) ==
    IF i >= 8 THEN out
    ELSE pullButtonsFromByte_KeepsNone(c, src,
                                       Append(out, <<getButtonMap(src)[i + 1], Bit(c, i) /= 0>>),
                                       i + 1)

\* pullButtonsFromByte, lines 179-185: the loop from slot i on
RECURSIVE pullButtonsFromByte(_, _, _, _)
pullButtonsFromByte(c, src, out, i) ==
    IF i >= 8 THEN out
    ELSE IF getButtonMap(src)[i + 1] = "None"
         THEN pullButtonsFromByte(c, src, out, i + 1)
         ELSE pullButtonsFromByte(c, src,
                                  Append(out, <<getButtonMap(src)[i + 1], Bit(c, i) /= 0>>),
                                  i + 1)

\* buttonToReportBits, lines 187-222
buttonToReportBits(b) ==
    CASE b = "DPadUp" -> 1
      [] b = "DPadDown" -> 2
      [] b = "DPadLeft" -> 4
      [] b = "DPadRight" -> 8
      [] b = "Plus" -> 16
      [] b = "Minus" -> 32
      [] b = "LStick" -> 64
      [] b = "RStick" -> 128
      [] b = "L" -> 256
      [] b = "R" -> 512
      [] b = "Home" -> 1024
      [] b = "A" -> 4096
      [] b = "B" -> 8192
      [] b = "X" -> 16384
      [] b = "Y" -> 32768
      [] OTHER -> 0

\* a | b on unsigned short
RECURSIVE BitOrFrom(_, _, _)
BitOrFrom(a, b, k) ==
    IF k = 16 THEN 0
    ELSE (IF Bit(a, k) = 1 \/ Bit(b, k) = 1 THEN 2^k ELSE 0) + BitOrFrom(a, b, k + 1)

BitOr(a, b) == BitOrFrom(a, b, 0)

\* std::numeric_limits<BYTE>::max()
bytemax == 255

\* mapButtonToReport, lines 224-236
mapButtonToReport(b, report) ==
    CASE b = "LZ" -> [report EXCEPT !.bLeftTrigger = bytemax]
      [] b = "RZ" -> [report EXCEPT !.bRightTrigger = bytemax]
      [] OTHER -> [report EXCEPT !.wButtons = BitOr(@, buttonToReportBits(b))]

\* XUSB_REPORT report{}
ZeroReport ==
    [wButtons |-> 0, bLeftTrigger |-> 0, bRightTrigger |-> 0,
     sThumbLX |-> 0, sThumbLY |-> 0, sThumbRX |-> 0, sThumbRY |-> 0]

\* mapInputToReport, lines 256-264: the pressed buttons, in order
RECURSIVE mapPressedToReport(_, _)
mapPressedToReport(buttons, report) ==
    IF buttons = <<>> THEN report
    ELSE mapPressedToReport(Tail(buttons),
                            IF Head(buttons)[2]
                            THEN mapButtonToReport(Head(buttons)[1], report)
                            ELSE report)

\* mapInputToReport, lines 238-269; p.sticks[k] is sticks[k - 1] of the code
mapInputToReport(p, report) ==
    LET LeftX == (p.sticks[2] % 16) * 16 + (p.sticks[1] \div 16)
        LeftY == p.sticks[3]
        RightX == (p.sticks[5] % 16) * 16 + (p.sticks[4] \div 16)
        RightY == p.sticks[6]
        buttons ==
            pullButtonsFromByte(p.middleButtons, "Middle",
                pullButtonsFromByte(p.rightButtons, "Right",
                    pullButtonsFromByte(p.leftButtons, "Left", <<>>, 0), 0), 0)
    IN  mapPressedToReport(buttons,
                           [report EXCEPT !.sThumbLX = expandUChar(LeftX),
                                          !.sThumbLY = expandUChar(LeftY),
                                          !.sThumbRX = expandUChar(RightX),
                                          !.sThumbRY = expandUChar(RightY)])

\* InputPacket values: the three button bytes and the six stick bytes (the
\* header and the unknown bytes are not read by the mapping)
StickSamples == {<<52, 5, 120, 154, 11, 205>>, <<0, 0, 0, 240, 15, 255>>}
Packets ==
    {[leftButtons |-> l, rightButtons |-> r, middleButtons |-> m, sticks |-> s] :
        l \in {0, 129, 255}, r \in {0, 136}, m \in {0, 19},
        s \in {<<52, 5, 120, 154, 11, 205>>}}
    \cup {[leftButtons |-> 0, rightButtons |-> 0, middleButtons |-> 0, sticks |-> s] :
             s \in StickSamples}

\* expandUChar applied to a sample
Apply_expandUChar(c) ==
    /\ calc.fn = "none"
    /\ calc' = [fn |-> "expandUChar", in |-> c, out |-> expandUChar(c),
                before |-> ZeroReport]
    /\ UNCHANGED program

\* pullButtonsFromByte applied to a byte and a byte group, out empty
Apply_pullButtonsFromByte(c, src) ==
    /\ calc.fn = "none"
    /\ calc' = [fn |-> "pullButtonsFromByte", in |-> <<c, src>>,
                out |-> pullButtonsFromByte(c, src, <<>>, 0), before |-> ZeroReport]
    /\ UNCHANGED program

\* the report of the poll before this one, if there was one
ReportBefore == IF calc.fn = "pollInput" THEN calc.out ELSE ZeroReport

\* mutant: the report is kept from one poll to the next
PollReport_Accumulating(p) ==
    /\ calc.fn \in {"none", "pollInput"}
    /\ calc' = [fn |-> "pollInput", in |-> p, out |-> mapInputToReport(p, ReportBefore),
                before |-> ReportBefore]
    /\ UNCHANGED program

\* pollInput, lines 277 and 283-288, for an answer that is not the marker:
\* a fresh report is filled from the packet p and submitted
PollReport(p) ==
    /\ calc.fn \in {"none", "pollInput"}
    /\ calc' = [fn |-> "pollInput", in |-> p, out |-> mapInputToReport(p, ZeroReport),
                before |-> ReportBefore]
    /\ UNCHANGED program

MapNext ==
    \/ \E c \in 0..ucmax : Apply_expandUChar(c)
    \/ \E c \in 0..ucmax, src \in ButtonSources : Apply_pullButtonsFromByte(c, src)
    \/ \E p \in Packets : PollReport(p)

MapSpec == Init /\ [][MapNext]_vars

Next ==
    \/ \E s \in Sessions : Construct_Init(s)
    \/ \E s \in Sessions : Construct_Lock(s)
    \/ \E s \in Sessions : Construct_Emplace(s)
    \/ \E src, dst \in Sessions : MoveConstruct_Begin(src, dst)
    \/ \E src, dst \in Sessions : MoveConstruct_End(src, dst)
    \/ \E src, dst \in Sessions : MoveAssign_Begin(src, dst)
    \/ \E src, dst \in Sessions : MoveAssign_End(src, dst)
    \/ \E s \in Sessions : Destroy_Begin(s)
    \/ \E s \in Sessions : Destroy_Lock(s)
    \/ \E s \in Sessions : Destroy_Unplug(s)
    \/ \E s \in Sessions : Destroy_Disconnect(s)
    \/ \E s \in Sessions : Destroy_Erase(s)
    \/ \E s \in Sessions : Destroy_Close(s)
    \/ \E s \in Sessions, dev \in DevInfos : OpenDevice_Open(s, dev)
    \/ \E s \in Sessions : OpenDevice_Reopened(s)
    \/ \E s \in Sessions, first \in BOOLEAN : OpenDevice_Handshake(s, first)
    \/ \E s \in Sessions, ok \in BOOLEAN : OpenDevice_Configure(s, ok)
    \/ \E s \in Sessions, bus \in BOOLEAN : OpenDevice_Plugin(s, bus)
    \/ \E s \in Sessions : OpenDevice_Released(s)
    \/ \E s \in Sessions : OpenDevice_Plugged(s)
    \/ \E s \in Sessions : OpenDevice_Register(s)
    \/ \E s \in Sessions : OpenDevice_Return(s)
    \/ \E s \in Sessions : PollInput_Begin(s)
    \/ \E s \in Sessions, answer \in Answers : PollInput_Answer(s, answer)
    \/ \E s \in Sessions : PollInput_Submit(s)
    \/ Callback_Lock
    \/ \E t \in Targets, f \in FeedbackSamples : Callback_Apply(t, f[1], f[2], f[3])

Spec == Init /\ [][Next]_vars

\* a thread inside a constructor, a destructor or the callback keeps running:
\* every step it can take it takes in the end (weak fairness); this holds for
\* a thread waiting for controllerSetMut only while the mutex stays free,
\* std::mutex hands it over in no particular order.  Whether a caller
\* constructs, moves, opens, polls or destroys at all is left to the caller.
Fairness ==
    /\ \A s \in Sessions :
          /\ WF_vars(Construct_Lock(s))
          /\ WF_vars(Construct_Emplace(s))
          /\ WF_vars(Destroy_Lock(s))
          /\ WF_vars(Destroy_Unplug(s))
          /\ WF_vars(Destroy_Disconnect(s))
          /\ WF_vars(Destroy_Erase(s))
          /\ WF_vars(Destroy_Close(s))
    /\ WF_vars(\E t \in Targets, f \in FeedbackSamples : Callback_Apply(t, f[1], f[2], f[3]))

FairInit == Start(FairMaxEvents)

FairSpec == FairInit /\ [][Next]_vars /\ Fairness

\* ------------------------------------------------------------------ claims
Active(s) == life[s] = "live" /\ device[s] /\ vController[s].State = "CONNECTED"

Unplug == Ev("vigem_target_unplug", <<>>)
PlugIn == Ev("vigem_target_plugin", <<>>)
Register == Ev("vigem_register_xusb_notification", <<>>)
Submit == Ev("vigem_xusb_submit_report", <<>>)
EraseSelf == Ev("erase", <<>>)

\* C1: every live object (constructed by any constructor, destruction not
\* started) has an entry in the registry, and no object whose destruction
\* has completed has one.
C1_LiveSessionsRegistered ==
    \A s \in Sessions :
        /\ life[s] = "live" => InRegistry(s)
        /\ life[s] = "dead" => ~InRegistry(s)

\* C2 as stated: right after openDevice fails with a DeviceError,
\* HandshakeError or PlugInError the session is not registered and holds no
\* plugged-in virtual controller.
C2_FailedOpenLeavesNothingRegistered ==
    last.outcome \in OpenErrors =>
        /\ ~InRegistry(last.session)
        /\ vController[last.session].State /= "CONNECTED"

\* the positions of a call of openDevice after hid_open_path
OpenDevicePcs ==
    {"o_reopen", "o_handshake", "o_configure", "o_plugin", "o_release", "o_plugged",
     "o_register", "o_return"}

\* the call of openDevice on s takes a step
OpenDeviceStep(s) ==
    \/ /\ life[s] = "live" /\ pc[s] = "idle"
       /\ \/ pc'[s] \in {"o_reopen", "o_handshake"}
          \/ last'.session = s /\ last'.outcome = "DeviceError"
    \/ pc[s] \in OpenDevicePcs /\ (pc'[s] /= pc[s] \/ trace'[s] /= trace[s])

\* the plug-in of the call on s has succeeded
PlugInDone(s) == pc[s] \in {"o_plugged", "o_register", "o_return"}

\* C2 amended: an openDevice that fails with a DeviceError, HandshakeError or
\* PlugInError has changed neither the registry nor the virtual controller:
\* no step of the call changes the registry, only the steps of a successful
\* plug-in change the virtual controller and the bus, and a call whose
\* plug-in has succeeded does not fail; so the session is registered exactly
\* as it was before the call and the call has plugged in nothing.
C2_FailedOpenChangesNeitherRegistryNorTarget ==
    /\ [][\A s \in Sessions :
             OpenDeviceStep(s) =>
                 /\ controllers' = controllers
                 /\ ~PlugInDone(s)' =>
                        /\ vController' = vController
                        /\ plugged' = plugged
                 /\ PlugInDone(s) =>
                        ~(last'.session = s /\ last'.outcome \in OpenErrors)]_vars
    /\ [](last.outcome \in OpenErrors =>
             PlugIn \notin {last.trace[i] : i \in 1..(Len(last.trace) - 1)})

C2_Witness ==
    /\ last.outcome = "PlugInError"
    /\ InRegistry(last.session)
    /\ vController[last.session].State = "INITIALIZED"

\* the seven commands of the handshake, byte for byte
SevenCommands ==
    << [op |-> "exchange", bytes |-> <<128, 2>>],
       [op |-> "exchange", bytes |-> <<128, 3>>],
       [op |-> "exchange", bytes |-> <<128, 2>>],
       [op |-> "exchange", bytes |-> <<128, 4>>],
       [op |-> "sendSubcommand", bytes |-> <<1, 72, 1>>],
       [op |-> "sendSubcommand", bytes |-> <<1, 64, 1>>],
       [op |-> "sendSubcommand", bytes |-> <<1, 48, 1>>] >>

\* C3: a successful openDevice sends handshake, switch-baud-rate, handshake,
\* HID-only-mode, rumble (0x48), IMU (0x40), LED (0x30) in exactly this order
\* with nothing in between, and the plug-in is attempted only after all seven.
C3_HandshakeOrder ==
    /\ last.outcome = "opened" => last.trace = SevenCommands \o <<PlugIn, Register>>
    /\ \A i \in 1..Len(last.trace) :
          last.trace[i] = PlugIn => SubSeq(last.trace, 1, i - 1) = SevenCommands

C3_Witness == last.outcome = "opened" /\ Active(last.session)

\* C4: the three feature-enable subcommands of a handshake, rumble, IMU and
\* LED in this order, carry increasing ids: each later one an id strictly
\* greater than the one sent before it, so the three are pairwise distinct.
C4_SubcommandIdsIncrease ==
    last.outcome \in {"opened", "PlugInError"} =>
        LET wire == SubcommandsOnWire(last.trace)
        IN  /\ Len(wire) = 3
            /\ <<wire[1][2], wire[2][2], wire[3][2]>> = <<72, 64, 48>>
            /\ \A i \in 1..2 : wire[i][1] < wire[i + 1][1]
            /\ \A i, j \in 1..3 : i /= j => wire[i][1] /= wire[j][1]

C4_Witness == last.outcome = "opened" /\ Len(SubcommandsOnWire(last.trace)) = 3

Calls(tr) == {tr[i] : i \in 1..Len(tr)}

\* C5: on an opened device openDevice raises a HandshakeError exactly when the
\* first handshake is not acknowledged; whatever the results of the later
\* exchanges, the call goes on to the plug-in, and when the plug-in succeeds
\* the session is Active.
C5_OnlyFirstHandshakeDecides ==
    /\ [][\A s \in Sessions :
             /\ (pc[s] = "o_handshake" /\ pc'[s] /= pc[s]) =>
                   \A first \in BOOLEAN :
                      OpenDevice_Handshake(s, first)
                      => /\ (last'.session = s /\ last'.outcome = "HandshakeError")
                            <=> ~first
                         /\ first <=> pc'[s] = "o_configure"
             /\ (pc[s] = "o_configure" /\ trace'[s] /= trace[s]) =>
                   \A ok \in BOOLEAN :
                      OpenDevice_Configure(s, ok)
                      => /\ pc'[s] \in {"o_configure", "o_plugin"}
                         /\ pc'[s] = "o_plugin" <=> Len(trace'[s]) = 1 + Len(LaterExchanges)
                         /\ last' = NoCall
                         /\ ignored'[s] <=> (ignored[s] \/ ~ok)
             /\ (pc[s] = "o_plugin" /\ pc'[s] /= pc[s]) =>
                   /\ PlugIn \in (Calls(trace'[s]) \cup Calls(last'.trace))
                   /\ pc'[s] = "idle" => last'.outcome = "PlugInError"
             /\ (pc[s] = "o_release" /\ pc'[s] /= pc[s]) =>
                   /\ last'.session = s /\ last'.outcome = "PlugInError"
                   /\ PlugIn \in Calls(last'.trace)
             /\ (pc[s] = "o_return" /\ pc'[s] /= pc[s]) =>
                   /\ last'.session = s /\ last'.outcome = "opened"
                   /\ last'.ignored = ignored[s]
                   /\ Active(s)']_vars
    /\ [](last.outcome = "HandshakeError" => last.trace = <<FirstExchange>>)

C5_Witness == last.outcome = "opened" /\ last.ignored /\ Active(last.session)

\* C6: when the plug-in fails, a PlugInError is raised, the device handle is
\* released, the call does not register the feedback callback and the
\* session is not Active.
C6_PlugInFailureReleasesDevice ==
    last.outcome = "PlugInError" =>
        /\ ~device[last.session]
        /\ ~Active(last.session)
        /\ Register \notin Calls(last.trace)
        /\ last.trace[Len(last.trace)] = PlugIn

C6_Witness == last.outcome = "PlugInError" /\ ~device[last.session]

\* the polls that were answered with a report and have yet to submit it
Submitting == {s \in Sessions : pc[s] = "p_submit"}

PollPcs == {"p_send", "p_submit"}

\* C7: a poll whose getInput answer has first byte 0x30 submits nothing and
\* returns; a report is submitted only by a poll that was answered with
\* another first byte, once each, so across any sequence of polls the
\* number of submitted reports, plus the polls that hold an answered report
\* and are about to submit it, is the number of answers whose first byte was
\* not 0x30: with no poll under way the two numbers are equal.
C7_MarkerNeverSubmitted ==
    /\ [](submitted + Cardinality(Submitting) = fresh)
    /\ [][\A s \in Sessions :
             (pc[s] = "p_send" /\ pc'[s] /= "p_send") =>
                \A a \in Answers :
                   (a.has /\ a.first = 48 /\ PollInput_Answer(s, a))
                   => /\ pc'[s] = "idle"
                      /\ last' = [session |-> s, outcome |-> "polled",
                                  trace |-> <<GetInputCommand>>, ignored |-> FALSE]
                      /\ submitted' = submitted]_vars
    /\ [][submitted' /= submitted =>
             /\ submitted' = submitted + 1
             /\ \E s \in Sessions :
                   /\ pc[s] = "p_submit" /\ pc'[s] = "idle"
                   /\ last' = [session |-> s, outcome |-> "polled",
                               trace |-> <<GetInputCommand, Submit>>,
                               ignored |-> FALSE]]_vars

C7_Witness ==
    /\ submitted = 2 /\ fresh = 2
    /\ last.outcome = "polled"
    /\ last.trace = <<[op |-> "sendCommand", bytes |-> <<31>>]>>

GoodAnswer == [has |-> TRUE, first |-> 33]

\* C8: a failed getInput exchange raises a PollError, submits nothing and
\* leaves the session as it was: from the start of the poll to its end the
\* session stays alive, registered, with its device and its virtual
\* controller, Active if it was; after the error the session can be polled
\* again, and a poll that is answered with a report submits it as usual.
C8_PollErrorKeepsSession ==
    /\ [][\A s \in Sessions :
             (pc[s] = "p_send" /\ pc'[s] /= "p_send") =>
                \A a \in Answers :
                   (~a.has /\ PollInput_Answer(s, a))
                   => /\ last' = [session |-> s, outcome |-> "PollError",
                                  trace |-> <<GetInputCommand>>, ignored |-> FALSE]
                      /\ pc'[s] = "idle"
                      /\ UNCHANGED <<life, device, vController, feedback, controllers,
                                     plugged, submitted, fresh>>]_vars
    /\ [][\A s \in Sessions :
             (pc[s] \in PollPcs \/ pc'[s] \in PollPcs)
             => /\ life'[s] = life[s] /\ device'[s] = device[s]
                /\ vController'[s] = vController[s]
                /\ InRegistry(s)' = InRegistry(s)
                /\ Active(s)' = Active(s)]_vars
    /\ [](\A s \in Sessions :
             (last.outcome = "PollError" /\ last.session = s)
             => /\ life[s] = "live" /\ pc[s] = "idle" /\ device[s]
                /\ ENABLED PollInput_Begin(s))
    /\ [][\A s \in Sessions :
             (pc[s] = "idle" /\ pc'[s] = "p_send") => trace'[s] = <<GetInputCommand>>]_vars
    /\ [](\A s \in Sessions :
             (pc[s] = "p_send" /\ Events < allowed)
             => ENABLED PollInput_Answer(s, GoodAnswer))
    /\ [][\A s \in Sessions :
             (pc[s] = "p_send" /\ pc'[s] /= "p_send" /\ PollInput_Answer(s, GoodAnswer))
             => pc'[s] = "p_submit"]_vars
    /\ [](\A s \in Sessions : pc[s] = "p_submit" => ENABLED PollInput_Submit(s))
    /\ [][\A s \in Sessions :
             (pc[s] = "p_submit" /\ pc'[s] /= "p_submit")
             => /\ submitted' = submitted + 1
                /\ last'.session = s /\ last'.outcome = "polled"
                /\ last'.trace = <<GetInputCommand, Submit>>]_vars

C8_Witness ==
    /\ last.outcome = "PollError"
    /\ Active(last.session)
    /\ InRegistry(last.session)

\* C9: pollInput on a session without a device handle does nothing: it can
\* be called, it returns at once without an error, having sent no command
\* and submitted no report, and session and registry are unchanged.
C9_PollWithoutDeviceIsNoOp ==
    /\ [][\A s \in Sessions :
             (life[s] = "live" /\ pc[s] = "idle" /\ ~device[s] /\ PollInput_Begin(s))
             => /\ last' = [session |-> s, outcome |-> "polled", trace |-> <<>>,
                            ignored |-> FALSE]
                /\ UNCHANGED <<life, pc, device, vController, feedback, trace, ignored,
                               controllers, mutex, plugged, submitted, fresh>>]_vars
    /\ [](\A s \in Sessions :
             (life[s] = "live" /\ pc[s] = "idle" /\ ~device[s])
             => ENABLED PollInput_Begin(s))

C9_Witness ==
    /\ last.outcome = "polled" /\ last.trace = <<>>
    /\ life[last.session] = "live" /\ ~device[last.session]

Disconnect == [op |-> "exchange", bytes |-> <<128, 5>>]

\* the destructor of s found the target connected: the target is marked
\* DISCONNECTED only by the unplug of the destructor itself
FoundConnected(s) == vController[s].State \in {"CONNECTED", "DISCONNECTED"}

\* C10: the destructor of a session with a connected virtual controller and
\* an open device calls unplug once and sends disconnect (0x80 0x05) once,
\* unplug first, and both before the session leaves the registry.
C10_UnplugThenDisconnectThenErase ==
    /\ \A s \in Sessions :
          /\ (pc[s] = "d_erase" /\ device[s] /\ FoundConnected(s))
                => trace[s] = <<Unplug, Disconnect>>
          /\ pc[s] \in {"d_lock", "d_unplug", "d_disconnect", "d_erase"}
                => EraseSelf \notin Calls(trace[s])
    /\ last.outcome = "destroyed" =>
          /\ ~InRegistry(last.session)
          /\ last.trace \in {<<>>, <<Unplug>>, <<Disconnect>>, <<Unplug, Disconnect>>,
                             <<EraseSelf>>, <<Unplug, EraseSelf>>,
                             <<Disconnect, EraseSelf>>,
                             <<Unplug, Disconnect, EraseSelf>>}

C10_Witness ==
    /\ last.outcome = "destroyed"
    /\ last.trace = <<Unplug, Disconnect, EraseSelf>>

\* C11: once the destruction of a session has started it completes, with the
\* session out of the registry, whether the disconnect exchange succeeds or
\* fails and however callbacks and the constructors and destructors of other
\* sessions interleave (fairly); the destructor ends in one way only, a
\* failed disconnect is dropped and not raised.
C11_DestructionCompletes ==
    /\ \A s \in Sessions :
          (life[s] = "destroying") ~> (life[s] = "dead" /\ ~InRegistry(s))
    /\ [][\A s \in Sessions :
             (life[s] = "destroying" /\ life'[s] = "dead")
             => /\ last'.session = s /\ last'.outcome = "destroyed"
                /\ last'.ignored = ignored[s]
                /\ ~InRegistry(s)']_vars

C11_Witness ==
    /\ last.outcome = "destroyed" /\ last.ignored
    /\ Disconnect \in Calls(last.trace)
    /\ life[last.session] = "dead" /\ ~InRegistry(last.session)

\* the thread working on s is at a call into a device: the unplug of the
\* virtual controller (line 38) or the exchange with the physical device
\* (line 42), each made only when its condition holds
InDeviceIO(s) ==
    \/ pc[s] = "d_unplug" /\ vController[s].State = "CONNECTED"
    \/ pc[s] = "d_disconnect" /\ device[s]

\* C12: no thread holds controllerSetMut while it is in a device I/O call (an
\* exchange with the physical device or an unplug of the virtual controller).
C12_NoDeviceIOUnderLock ==
    \A s \in Sessions : mutex = s => ~InDeviceIO(s)

\* the callback returns in this step
CallbackReturns == cbpc = "locked" /\ cbpc' = "idle"

\* the registered sessions whose identity equals t in all four fields
Matching(t) ==
    {s \in Sessions :
        /\ InRegistry(s)
        /\ vController[s].ProductId = t.ProductId
        /\ vController[s].SerialNo = t.SerialNo
        /\ vController[s].State = t.State
        /\ vController[s].VendorId = t.VendorId}

\* C13 as stated: after a callback with identity t, every registered session
\* whose identity equals t has the values of the callback.
C13_EveryMatchUpdated ==
    cbpc = "locked" =>
        \A t \in Targets, f \in FeedbackSamples :
           LET after == vigemCallback(t, f[1], f[2], f[3])
           IN  \A s \in Matching(t) :
                  after[s] = [largeMotor |-> f[1], smallMotor |-> f[2],
                              currentLed |-> f[3]]

\* C13 amended: a callback with identity t and values (large, small, led):
\* when registered sessions match t in all four fields, the first of them in
\* the registry gets exactly largeMotor = large, smallMotor = small,
\* currentLed = led and every other session keeps its feedback state; when
\* none matches, no feedback state changes; the registry is the same
\* afterwards in both cases.
C13_CallbackUpdatesMatch ==
    /\ [](cbpc = "locked" =>
            \A t \in Targets, f \in FeedbackSamples :
               LET after == vigemCallback(t, f[1], f[2], f[3])
               IN  IF Matching(t) /= {}
                   THEN \E s \in Matching(t) :
                           /\ after[s] = [largeMotor |-> f[1], smallMotor |-> f[2],
                                          currentLed |-> f[3]]
                           /\ \A k \in 1..Len(controllers) :
                                 controllers[k] \in Matching(t)
                                 => \E j \in 1..k : controllers[j] = s
                           /\ \A o \in Sessions \ {s} : after[o] = feedback[o]
                   ELSE after = feedback)
    /\ [][CallbackReturns =>
            /\ controllers' = controllers
            /\ \E t \in Targets, f \in FeedbackSamples :
                  feedback' = vigemCallback(t, f[1], f[2], f[3])]_vars

\* two registered sessions with the same identity, and a callback has
\* updated the first in the registry and not the second
C13_Witness ==
    /\ callbacks = 1 /\ cbpc = "idle" /\ Len(controllers) = 2
    /\ vController[controllers[1]] = vController[controllers[2]]
    /\ vController[controllers[1]].State /= "NEW"
    /\ feedback[controllers[1]] = [largeMotor |-> 1, smallMotor |-> 2, currentLed |-> 3]
    /\ feedback[controllers[2]] = NoFeedback

\* the identity of s differs from t in at least one of the four fields
Differs(s, t) ==
    \/ vController[s].ProductId /= t.ProductId
    \/ vController[s].SerialNo /= t.SerialNo
    \/ vController[s].State /= t.State
    \/ vController[s].VendorId /= t.VendorId

\* C14: a callback changes the feedback state of at most one session; a
\* session whose identity differs from the identity of the callback in any
\* one field is left unchanged, so of two live registered sessions A and B a
\* callback that carries the identity of A only never changes B.
C14_CallbackMatchesOneSession ==
    /\ [](cbpc = "locked" =>
            \A t \in Targets, f \in FeedbackSamples :
               LET after == vigemCallback(t, f[1], f[2], f[3])
               IN  /\ Cardinality({s \in Sessions : after[s] /= feedback[s]}) <= 1
                   /\ \A s \in Sessions : Differs(s, t) => after[s] = feedback[s]
                   /\ \A A, B \in Sessions :
                         (/\ life[A] \in {"live", "destroying"} /\ InRegistry(A)
                          /\ life[B] \in {"live", "destroying"} /\ InRegistry(B)
                          /\ ~Differs(A, t) /\ Differs(B, t))
                         => after[B] = feedback[B])
    /\ [][CallbackReturns =>
            Cardinality({s \in Sessions : feedback'[s] /= feedback[s]}) <= 1]_vars

\* two live registered sessions that differ in the serial number only, and
\* a callback has updated the second in the registry and not the first
C14_Witness ==
    /\ callbacks = 1 /\ cbpc = "idle"
    /\ Len(controllers) = 2
    /\ \A s \in Sessions : life[s] = "live" /\ vController[s].State = "CONNECTED"
    /\ vController[controllers[1]].SerialNo /= vController[controllers[2]].SerialNo
    /\ feedback[controllers[1]] = NoFeedback
    /\ feedback[controllers[2]] = [largeMotor |-> 1, smallMotor |-> 2, currentLed |-> 3]

\* the registry without the entries of s, the others in their order
Without(seq, s) == SelectSeq(seq, LAMBDA e : e /= s)

\* Controller::Controller() of s returns
ConstructorReturns(s) == pc[s] = "c_emplace" /\ life'[s] = "live"
\* ~Controller() of s ends its body (find_if, erase)
DestructorErases(s) == pc[s] = "d_erase" /\ pc'[s] = "d_close"

\* C15: the constructor of a session appends the entry of that session and
\* nothing else, its destructor takes out exactly that entry (found by
\* reference identity) and leaves every other entry where it was, and no
\* other step changes the registry; so a session constructed and destroyed,
\* with or without a successful handshake in between, leaves the registry as
\* it was up to what other sessions did to their own entries.
C15_OwnEntryOnly ==
    /\ [](\A i, j \in 1..Len(controllers) : controllers[i] = controllers[j] => i = j)
    /\ [][\A s \in Sessions :
             /\ ConstructorReturns(s) => controllers' = Append(controllers, s)
             /\ DestructorErases(s)
                   => /\ controllers' = Without(controllers, s)
                      /\ \A r \in Sessions \ {s} : InRegistry(r)' = InRegistry(r)]_vars
    /\ [][controllers' /= controllers
             => \E s \in Sessions : ConstructorReturns(s) \/ DestructorErases(s)]_vars

\* the second session was constructed and destroyed without ever opening a
\* device, next to a registered session that carries the very same identity
C15_Witness ==
    /\ last.outcome = "destroyed" /\ last.session = 2
    /\ last.trace = <<EraseSelf>>
    /\ controllers = <<1>>
    /\ life[1] = "live" /\ vController[1].State = "INITIALIZED"

\* C16: expandUChar maps 0 to -32768 and 255 to 32767 and is non-decreasing:
\* expandUChar(c) <= expandUChar(c + 1) for every sample c < 255.
C16_ExpandEndpointsAndMonotone ==
    calc.fn = "expandUChar" =>
        /\ calc.in = 0 => calc.out = -32768
        /\ calc.in = 255 => calc.out = 32767
        /\ calc.in < 255 => calc.out <= expandUChar(calc.in + 1)
        /\ calc.out \in -32768..32767

C16_Witness == calc.fn = "expandUChar" /\ calc.in = 255 /\ calc.out = 32767

\* the slots of a table that hold a button
ButtonSlots(map) == {i \in 0..7 : map[i + 1] /= "None"}

\* C17: decoding a byte c against the table of a byte group gives, in slot
\* order, exactly one (Button, pressed) pair for every slot i that holds a
\* button, pressed being true exactly when bit i of c is set, and no pair for
\* a slot that holds none.
C17_OnePairPerButtonSlot ==
    calc.fn = "pullButtonsFromByte" =>
        LET c == calc.in[1]
            map == getButtonMap(calc.in[2])
            slots == ButtonSlots(map)
        IN  /\ Len(calc.out) = Cardinality(slots)
            /\ \A i \in slots :
                  LET k == Cardinality({j \in slots : j <= i})
                  IN  calc.out[k] = <<map[i + 1], (c \div 2^i) % 2 = 1>>
            /\ \A k \in 1..Len(calc.out) : calc.out[k][1] /= "None"

C17_Witness ==
    /\ calc.fn = "pullButtonsFromByte" /\ calc.in = <<129, "Left">>
    /\ calc.out = <<<<"DPadDown", TRUE>>, <<"DPadUp", FALSE>>, <<"DPadRight", FALSE>>,
                    <<"DPadLeft", FALSE>>, <<"L", FALSE>>, <<"LZ", TRUE>>>>

\* the buttons pressed in a packet: those of the slots that hold a button
\* and whose bit is set
Pressed(p) ==
    ({JoyconLBitmap[i + 1] : i \in {j \in 0..7 : (p.leftButtons \div 2^j) % 2 = 1}}
     \cup {JoyconRBitmap[i + 1] : i \in {j \in 0..7 : (p.rightButtons \div 2^j) % 2 = 1}}
     \cup {JoyconMidBitmap[i + 1] : i \in {j \in 0..7 : (p.middleButtons \div 2^j) % 2 = 1}})
    \ {"None"}

\* C18: the report a poll submits depends on the packet of that poll alone:
\* bit k of its button field is set exactly when a button pressed in this
\* packet has bit k in its mask, its left (right) trigger is 255 when LZ (RZ)
\* is pressed in this packet and 0 when not, and nothing of the report of the
\* poll before is left in it.
C18_ReportFromThisPacketOnly ==
    calc.fn = "pollInput" =>
        /\ \A k \in 0..15 :
              ((calc.out.wButtons \div 2^k) % 2 = 1)
              <=> \E b \in Pressed(calc.in) \ {"LZ", "RZ"} :
                     (buttonToReportBits(b) \div 2^k) % 2 = 1
        /\ calc.out.wButtons \in 0..65535
        /\ calc.out.bLeftTrigger = IF "LZ" \in Pressed(calc.in) THEN 255 ELSE 0
        /\ calc.out.bRightTrigger = IF "RZ" \in Pressed(calc.in) THEN 255 ELSE 0
        /\ calc.out = mapInputToReport(calc.in, ZeroReport)

\* the poll before had buttons and both triggers held, this one has none
C18_Witness ==
    /\ calc.fn = "pollInput"
    /\ calc.before.wButtons /= 0
    /\ calc.before.bLeftTrigger = 255 /\ calc.before.bRightTrigger = 255
    /\ Pressed(calc.in) = {}
    /\ calc.out.wButtons = 0
    /\ calc.out.bLeftTrigger = 0 /\ calc.out.bRightTrigger = 0

\* the object of s exists: constructed (or under construction) and its
\* destructor has not returned
Exists(s) == life[s] \in {"constructing", "live", "destroying"}

\* C19: under every interleaving of a callback with destructions the callback
\* never writes into a session whose destruction has completed: every registry
\* entry refers to an object that still exists, and a session whose feedback
\* state the callback changes is in the registry and exists at that moment.
C19_NoWriteIntoDestroyed ==
    /\ [](\A i \in 1..Len(controllers) : Exists(controllers[i]))
    /\ [][CallbackReturns
            => \A s \in Sessions :
                  feedback'[s] /= feedback[s] => InRegistry(s) /\ Exists(s)]_vars

\* one session is destroyed already, and the callback has written into the
\* other one while its destructor was waiting for the registry mutex
C19_Witness ==
    /\ callbacks = 1 /\ cbpc = "idle"
    /\ \E s, r \in Sessions :
          /\ life[r] = "dead"
          /\ life[s] = "destroying" /\ pc[s] = "d_lock"
          /\ InRegistry(s)
          /\ feedback[s] /= NoFeedback

\* pollInput of s has just returned or thrown; it changes nothing of s, so s
\* is now as it was during the call
PollEnded(s) == last.session = s /\ last.outcome \in {"polled", "PollError"}

\* C20: a report is submitted to the virtual controller only by a session
\* that is Active (plugged in and not yet unplugged), and a poll of a session
\* that is not Active, such as one whose openDevice failed with a
\* HandshakeError, sends no get-input command either.
C20_SubmitOnlyWhenActive ==
    \A s \in Sessions :
        (PollEnded(s) /\ ~Active(s))
        => /\ Submit \notin Calls(last.trace)
           /\ GetInputCommand \notin Calls(last.trace)

=============================================================================
